---------------------------- MODULE Spec2Model ----------------------------
(***************************************************************************)
(* Model of telegram_music_downloader.py: the scan of a channel's message  *)
(* stream (download_music_files), its helpers, and main().                 *)
(*                                                                         *)
(* Python strings are modelled as sequences of one-character strings, so   *)
(* that replace/strip/lower/suffix/startswith are computed, not assumed.   *)
(* A value the code only tests for truthiness (None or "") is the empty    *)
(* sequence.                                                               *)
(***************************************************************************)
EXTENDS Integers, Sequences, FiniteSets, TLC

(***************************************************************************)
(* Bounds of the model.                                                    *)
(***************************************************************************)
\* longest message stream built from SmallPool
MaxStream == 3
\* number of consecutive runs of main() against the same channel
MaxRuns == 2

(***************************************************************************)
(* String helpers (Python str semantics).                                  *)
(***************************************************************************)
UpperChars == <<"A","B","C","D","E","F","G","H","I","J","K","L","M",
                "N","O","P","Q","R","S","T","U","V","W","X","Y","Z">>
LowerChars == <<"a","b","c","d","e","f","g","h","i","j","k","l","m",
                "n","o","p","q","r","s","t","u","v","w","x","y","z">>

\* str.lower() on one character
LowerChar(c) ==
    IF \E i \in 1..Len(UpperChars) : UpperChars[i] = c
    THEN LowerChars[CHOOSE i \in 1..Len(UpperChars) : UpperChars[i] = c]
    ELSE c

\* str.lower()
Lower(s) == [i \in 1..Len(s) |-> LowerChar(s[i])]

\* str.startswith(prefix)
StartsWith(s, prefix) ==
    /\ Len(s) >= Len(prefix)
    /\ SubSeq(s, 1, Len(prefix)) = prefix

\* str.strip(chars): drop leading and trailing characters that are in chars
Strip(s, chars) ==
    LET keep == {i \in 1..Len(s) : s[i] \notin chars}
    IN  IF keep = {} THEN <<>>
        ELSE LET lo == CHOOSE i \in keep : \A j \in keep : i <= j
                 hi == CHOOSE i \in keep : \A j \in keep : i >= j
             IN  SubSeq(s, lo, hi)

\* the characters str.strip() without argument removes
Whitespace == {" ", "\t", "\n", "\r"}

Digits == <<"0","1","2","3","4","5","6","7","8","9">>

\* str(n) of a non-negative integer, as the f-strings format message.id
RECURSIVE IntToStr(_)
IntToStr(n) ==
    IF n < 10 THEN <<Digits[n + 1]>>
    ELSE IntToStr(n \div 10) \o <<Digits[(n % 10) + 1]>>

\* pathlib: Path(filename).name, the final path component
PathName(filename) ==
    LET s == IF \E i \in 1..Len(filename) : filename[i] # "/"
             THEN SubSeq(filename, 1,
                    CHOOSE i \in 1..Len(filename) :
                        /\ filename[i] # "/"
                        /\ \A j \in (i+1)..Len(filename) : filename[j] = "/")
             ELSE <<>>
        slashes == {i \in 1..Len(s) : s[i] = "/"}
    IN  IF slashes = {} THEN s
        ELSE SubSeq(s, (CHOOSE i \in slashes : \A j \in slashes : i >= j) + 1, Len(s))

\* pathlib: Path(filename).suffix, from the last dot of the name when that dot
\* is neither its first nor its last character
PathSuffix(filename) ==
    LET name == PathName(filename)
        dots == {i \in 1..Len(name) : name[i] = "."}
    IN  IF dots = {} THEN <<>>
        ELSE LET i == CHOOSE k \in dots : \A j \in dots : k >= j
             IN  IF 1 < i /\ i < Len(name) THEN SubSeq(name, i, Len(name)) ELSE <<>>

(***************************************************************************)
(* Constants of the program.                                               *)
(***************************************************************************)
ext_mp3  == <<".","m","p","3">>
ext_m4a  == <<".","m","4","a">>
ext_flac == <<".","f","l","a","c">>
ext_wav  == <<".","w","a","v">>
ext_ogg  == <<".","o","g","g">>
ext_opus == <<".","o","p","u","s">>
ext_aac  == <<".","a","a","c">>
ext_wma  == <<".","w","m","a">>

AUDIO_EXTENSIONS ==
    {ext_mp3, ext_m4a, ext_flac, ext_wav, ext_ogg, ext_opus, ext_aac, ext_wma}

audio_slash == <<"a","u","d","i","o","/">>

\* the dict literal of get_file_extension_from_mime, as (key, value) pairs
mime_to_ext ==
    { <<audio_slash \o <<"m","p","e","g">>,             ext_mp3>>,
      <<audio_slash \o <<"m","p","4">>,                 ext_m4a>>,
      <<audio_slash \o <<"x","-","m","4","a">>,         ext_m4a>>,
      <<audio_slash \o <<"f","l","a","c">>,             ext_flac>>,
      <<audio_slash \o <<"w","a","v">>,                 ext_wav>>,
      <<audio_slash \o <<"o","g","g">>,                 ext_ogg>>,
      <<audio_slash \o <<"o","p","u","s">>,             ext_opus>>,
      <<audio_slash \o <<"a","a","c">>,                 ext_aac>>,
      <<audio_slash \o <<"x","-","m","s","-","w","m","a">>, ext_wma>> }

invalid_chars == {"<", ">", ":", "\"", "/", "\\", "|", "?", "*"}

(***************************************************************************)
(* Pure functions of the program.                                          *)
(***************************************************************************)
\* is_audio_file(filename)
is_audio_file(filename) ==
    IF filename = <<>> THEN FALSE
    ELSE Lower(PathSuffix(filename)) \in AUDIO_EXTENSIONS
\* mutant: the table is not consulted
get_file_extension_from_mime_no_table(mime_type) == ext_mp3

\* get_file_extension_from_mime(mime_type): mime_to_ext.get(mime_type, '.mp3')
get_file_extension_from_mime(mime_type) ==
    IF \E p \in mime_to_ext : p[1] = mime_type
    THEN (CHOOSE p \in mime_to_ext : p[1] = mime_type)[2]
    ELSE ext_mp3

\* get_filename_from_document(doc): the file_name of the first attribute that
\* has a non-empty one, else None.  attributes is the sequence of the
\* attributes' file_name values (empty for an attribute without file_name).
get_filename_from_document(attributes) ==
    LET named == {i \in 1..Len(attributes) : attributes[i] # <<>>}
    IN  IF named = {} THEN <<>>
        ELSE attributes[CHOOSE i \in named : \A j \in named : i <= j]
\* mutant: the characters are replaced but nothing is stripped
sanitize_filename_no_strip(filename) ==
    [i \in 1..Len(filename) |->
        IF filename[i] \in invalid_chars THEN "_" ELSE filename[i]]

\* sanitize_filename(filename)
sanitize_filename(filename) ==
    LET replaced == [i \in 1..Len(filename) |->
                        IF filename[i] \in invalid_chars THEN "_" ELSE filename[i]]
    IN  Strip(replaced, {" ", "."})


\* load_ignore_list, the parsing of the file's lines: each line stripped of
\* whitespace; empty lines and lines starting with '#' skipped;
\* ignore_dict[line.lower()] = line (a later line overwrites an earlier one)
parse_ignore_lines(lines) ==
    LET stripped == [i \in 1..Len(lines) |-> Strip(lines[i], Whitespace)]
        valid == {i \in 1..Len(lines) :
                     stripped[i] # <<>> /\ ~StartsWith(stripped[i], <<"#">>)}
        keys == {Lower(stripped[i]) : i \in valid}
    IN  [k \in keys |->
            stripped[CHOOSE i \in valid :
                        /\ Lower(stripped[i]) = k
                        /\ \A j \in valid : Lower(stripped[j]) = k => j <= i]]

\* load_ignore_list(base_dir): the dict read from ignore_list.txt, empty when
\* the file does not exist
load_ignore_list(file) ==
    IF file.exists THEN parse_ignore_lines(file.lines) ELSE <<>>

\* load_ignore_list's effect on the file: touch() when it is absent
touch_ignore_list(file) ==
    IF file.exists THEN file ELSE [exists |-> TRUE, lines |-> <<>>]

(***************************************************************************)
(* A message of the channel, as the scan reads it:                         *)
(*   id          message.id                                                *)
(*   media       message.media is truthy                                   *)
(*   audio       message.audio is truthy (a document with an audio         *)
(*               attribute that is not a voice note)                       *)
(*   voice       message.voice is truthy                                   *)
(*   document    message.document is truthy                                *)
(*   attributes  the document's attributes, each by its file_name          *)
(*   performer, title   getattr(audio, ..., None)                          *)
(*   mime_type   doc.mime_type                                             *)
(***************************************************************************)
Msg(id, media, audio, voice, document, attributes, performer, title, mime_type) ==
    [id |-> id, media |-> media, audio |-> audio, voice |-> voice,
     document |-> document, attributes |-> attributes,
     performer |-> performer, title |-> title, mime_type |-> mime_type]

\* lines 120-179 of download_music_files: the if/elif dispatch that sets
\* is_audio and filename for one message
classify(message) ==
    LET doc_name == get_filename_from_document(message.attributes)
        is_audio_mime == /\ message.mime_type # <<>>
                         /\ StartsWith(message.mime_type, audio_slash)
    IN  IF ~message.media THEN [is_audio |-> FALSE, filename |-> <<>>]
        ELSE IF message.audio THEN
            [is_audio |-> TRUE,
             filename |->
                IF doc_name # <<>> THEN doc_name
                ELSE IF message.performer # <<>> /\ message.title # <<>>
                     THEN message.performer \o <<" ","-"," ">> \o message.title \o ext_mp3
                ELSE IF message.title # <<>>
                     THEN message.title \o ext_mp3
                ELSE <<"a","u","d","i","o","_">> \o IntToStr(message.id) \o ext_mp3]
        ELSE IF message.voice THEN
            [is_audio |-> TRUE,
             filename |->
                IF doc_name # <<>> THEN doc_name
                ELSE <<"v","o","i","c","e","_">> \o IntToStr(message.id) \o ext_ogg]
        ELSE IF message.document THEN
            IF doc_name # <<>> /\ (is_audio_file(doc_name) \/ is_audio_mime)
            THEN [is_audio |-> TRUE, filename |-> doc_name]
            ELSE IF is_audio_mime
            THEN [is_audio |-> TRUE,
                  filename |-> <<"a","u","d","i","o","_">> \o IntToStr(message.id)
                                 \o get_file_extension_from_mime(message.mime_type)]
            ELSE IF doc_name # <<>> /\ is_audio_file(doc_name)
            THEN [is_audio |-> TRUE, filename |-> doc_name]
            ELSE [is_audio |-> FALSE, filename |-> <<>>]
        ELSE [is_audio |-> FALSE, filename |-> <<>>]

\* line 178: `if not is_audio or not filename: continue`
is_downloadable(c) == c.is_audio /\ c.filename # <<>>


(***************************************************************************)
(* Exceptions.  ConnectionError is a subclass of OSError, IOError is an    *)
(* alias of OSError; "TimeoutError" is asyncio.TimeoutError; "RPCError"    *)
(* stands for any exception class none of the program's handlers names.    *)
(***************************************************************************)
\* isinstance(exc, classes)
Catches(classes, exc) ==
    \/ exc \in classes
    \/ exc = "ConnectionError" /\ "OSError" \in classes

\* line 98: except (ValueError, TypeError)
entity_except == {"ValueError", "TypeError"}
\* mutant: asyncio.TimeoutError is not named
download_except_no_timeout == {"OSError", "IOError"}

\* line 213: except (OSError, IOError, asyncio.TimeoutError)
download_except == {"OSError", "IOError", "TimeoutError"}

\* line 300: except (ValueError, TypeError, ConnectionError)
main_except == {"ValueError", "TypeError", "ConnectionError"}

\* how an exception that leaves download_music_files ends main(): handled by
\* the except clause of line 300 (main then returns), or not caught
main_handler(exc) ==
    IF Catches(main_except, exc) THEN "return" ELSE "uncaught"

\* the process's exit status, by what leaves main() after the finally block:
\* a normal return, sys.exit(1), an exception nothing catches (traceback,
\* status 1), or the KeyboardInterrupt that asyncio.run raises once the
\* cancelled main task has finished (status 130)
exit_status(how) ==
    CASE how = "return"            -> 0
      [] how = "SystemExit"        -> 1
      [] how = "uncaught"          -> 1
      [] how = "KeyboardInterrupt" -> 130

(***************************************************************************)
(* The target directory, a function from file name to size.                *)
(***************************************************************************)
\* mutant: the check looks at the directory, not at the file
file_exists_directory_only(fs, name) == name = <<>>

\* file_path.exists(): a file of that name, or (empty name) the directory
file_exists(fs, name) == name = <<>> \/ name \in DOMAIN fs

\* the download primitive writing size bytes to file_path
write_file(fs, name, size) ==
    [n \in DOMAIN fs \cup {name} |-> IF n = name THEN size ELSE fs[n]]
\* mutant: the file is left in place
unlink_nothing(fs, name) == fs

\* file_path.unlink()
unlink(fs, name) == [n \in DOMAIN fs \ {name} |-> fs[n]]
\* mutant: the size is not checked
download_verified_no_size(fs, name) == name \in DOMAIN fs

\* line 205: file_path.exists() and file_path.stat().st_size > 0
download_verified(fs, name) == name \in DOMAIN fs /\ fs[name] > 0
\* mutant: the lookup is case-sensitive
ignore_key_case_sensitive(name) == name

\* line 186: the key looked up in the ignore dict, filename.lower()
ignore_key(name) == Lower(name)

(***************************************************************************)
(* Inputs.                                                                 *)
(***************************************************************************)
s_Song   == <<"S","o","n","g">> \o ext_mp3
s_track  == <<"t","r","a","c","k">> \o ext_mp3
s_Track  == <<"T","r","a","c","k">> \o ext_mp3
s_Artist == <<"A","r","t","i","s","t">>
s_Title  == <<"T","i","t","l","e">>
s_mpeg   == audio_slash \o <<"m","p","e","g">>
s_flac   == audio_slash \o <<"f","l","a","c">>
s_text   == <<"t","e","x","t","/","p","l","a","i","n">>
s_raw    == <<"a",":","b","/","c","*","d">>
s_padded == <<" "," ",".","n","a","m","e","."," "," ">>

\* messages the multi-message streams are built from: a new audio, one whose
\* name is in the ignore file, and two that share one file name
SmallPool ==
    { Msg(1, TRUE, TRUE,  FALSE, TRUE, <<>>,          s_Artist, s_Title, s_mpeg),
      Msg(2, TRUE, FALSE, FALSE, TRUE, <<s_track>>,   <<>>, <<>>, s_mpeg),
      Msg(3, TRUE, TRUE,  FALSE, TRUE, <<s_Song>>,    <<>>, <<>>, s_mpeg),
      Msg(4, TRUE, FALSE, FALSE, TRUE, <<s_Song>>,    <<>>, <<>>, <<>>) }

\* one message per case of the dispatch and of the sanitisation
BigPool ==
    { Msg(10, FALSE, FALSE, FALSE, FALSE, <<>>, <<>>, <<>>, <<>>),
      Msg(11, TRUE,  FALSE, FALSE, FALSE, <<>>, <<>>, <<>>, <<>>),
      Msg(12, TRUE,  TRUE,  FALSE, TRUE,  <<s_Song>>, s_Artist, s_Title, s_mpeg),
      Msg(13, TRUE,  TRUE,  FALSE, TRUE,  <<>>, s_Artist, s_Title, s_mpeg),
      Msg(14, TRUE,  TRUE,  FALSE, TRUE,  <<>>, <<>>, s_Title, s_mpeg),
      Msg(15, TRUE,  TRUE,  FALSE, TRUE,  <<>>, s_Artist, <<>>, s_mpeg),
      Msg(7,  TRUE,  TRUE,  FALSE, TRUE,  << <<>> >>, <<>>, <<>>, s_flac),
      Msg(42, TRUE,  FALSE, TRUE,  TRUE,  <<>>, <<>>, <<>>, audio_slash \o <<"o","g","g">>),
      Msg(16, TRUE,  FALSE, TRUE,  TRUE,  << <<"v",".","o","g","a">> >>, <<>>, <<>>, <<>>),
      Msg(17, TRUE,  FALSE, FALSE, TRUE,  << <<"n","o","t","e","s",".","t","x","t">> >>, <<>>, <<>>, s_text),
      Msg(18, TRUE,  FALSE, FALSE, TRUE,  <<>>, <<>>, <<>>, s_flac),
      Msg(19, TRUE,  FALSE, FALSE, TRUE,  <<>>, <<>>, <<>>, audio_slash \o <<"x","-","n","e","w">>),
      Msg(20, TRUE,  FALSE, FALSE, TRUE,  << <<"T","R","A","C","K",".","M","P","3">> >>, <<>>, <<>>, <<>>),
      Msg(21, TRUE,  FALSE, FALSE, TRUE,  << <<"a",".","z","i","p">> >>, <<>>, <<>>, s_mpeg),
      Msg(22, TRUE,  FALSE, FALSE, TRUE,  <<>>, <<>>, <<>>, s_text),
      Msg(23, TRUE,  FALSE, FALSE, TRUE,  << ext_mp3 >>, <<>>, <<>>, <<>>),
      Msg(24, TRUE,  TRUE,  FALSE, TRUE,  << s_raw >>, <<>>, <<>>, s_mpeg),
      Msg(25, TRUE,  TRUE,  FALSE, TRUE,  << s_padded >>, <<>>, <<>>, s_mpeg),
      Msg(26, TRUE,  TRUE,  FALSE, TRUE,  << <<".",".",".">> >>, <<>>, <<>>, s_mpeg),
      Msg(27, TRUE,  FALSE, FALSE, TRUE,  << <<>>, <<"x",".","w","a","v">>, s_Song >>, <<>>, <<>>, <<>>),
      Msg(28, TRUE,  FALSE, FALSE, TRUE,  <<>>, <<>>, <<>>, <<>>),
      Msg(29, TRUE,  FALSE, FALSE, TRUE,  << <<"a",".","m","p","3",".","t","x","t">> >>, <<>>, <<>>,
                                          <<"v","i","d","e","o","/","m","p","4">>),
      Msg(30, TRUE,  FALSE, FALSE, TRUE,  << <<"<","a",">",".","o","p","u","s">> >>, <<>>, <<>>, <<"a","u","d","i","o">>),
      Msg(105, TRUE, FALSE, FALSE, TRUE,  <<>>, <<>>, <<>>, audio_slash \o <<"x","-","m","s","-","w","m","a">>) }

\* the sequences of at most n distinct messages of pool
RECURSIVE StreamsOf(_, _)
StreamsOf(pool, n) ==
    IF n = 0 THEN {<<>>}
    ELSE LET shorter == StreamsOf(pool, n - 1)
             longest == {st \in shorter : Len(st) = n - 1}
         IN  shorter \cup
             {Append(p[1], p[2]) :
                 p \in {q \in longest \X pool :
                           \A i \in 1..Len(q[1]) : q[1][i] # q[2]}}

\* the channels of the model: every stream of SmallPool, every single
\* message of BigPool
Streams == StreamsOf(SmallPool, MaxStream) \cup {<<m>> : m \in BigPool}

\* API_ID, API_HASH, CHANNEL_USERNAME as os.getenv returns them (empty: unset)
Envs ==
    { [API_ID |-> <<"1","2">>, API_HASH |-> <<"h">>, CHANNEL_USERNAME |-> <<"@","c">>],
      [API_ID |-> <<>>,        API_HASH |-> <<"h">>, CHANNEL_USERNAME |-> <<"@","c">>],
      [API_ID |-> <<"1","2">>, API_HASH |-> <<>>,    CHANNEL_USERNAME |-> <<"@","c">>],
      [API_ID |-> <<"1","2">>, API_HASH |-> <<"h">>, CHANNEL_USERNAME |-> <<>>] }

\* ignore_list.txt: absent, or a comment, a blank line and two entries
IgnoreFiles ==
    { [exists |-> FALSE, lines |-> <<>>],
      [exists |-> TRUE,
       lines  |-> << <<"#"," ">> \o s_Song \o <<"\n">>,
                     <<"\n">>,
                     <<" "," ">> \o s_Track \o <<" ","\n">>,
                     <<"a","_","b","_","c","_","d","\n">> >>] }

\* the download directory before the first run: absent, or holding files
\* (one of them empty, one of them also named in the ignore file)
InitialDirs ==
    { [dir |-> {}, files |-> <<>>],
      [dir |-> {"base", "channel"}, files |-> write_file(<<>>, s_track, 0)],
      [dir |-> {"base", "channel"},
       files |-> write_file(write_file(<<>>, s_track, 0), s_Song, 1)] }

\* what client.download_media does for one message: the exception it raises
\* ("none": it returns) and the file it leaves at file_path
DownloadOutcomes ==
    { [raises |-> "none",            wrote |-> TRUE,  size |-> 1],
      [raises |-> "none",            wrote |-> TRUE,  size |-> 0],
      [raises |-> "none",            wrote |-> FALSE, size |-> 0],
      [raises |-> "OSError",         wrote |-> TRUE,  size |-> 0],
      [raises |-> "ConnectionError", wrote |-> TRUE,  size |-> 1],
      [raises |-> "TimeoutError",    wrote |-> FALSE, size |-> 0],
      [raises |-> "ValueError",      wrote |-> FALSE, size |-> 0],
      [raises |-> "RPCError",        wrote |-> TRUE,  size |-> 1] }

\* whether the primitive delivered the attachment: it returned and left a
\* non-empty file
NoOutcome == [raises |-> "none", wrote |-> FALSE, size |-> -1]

delivers(o) == o.raises = "none" /\ o.wrote /\ o.size > 0


(***************************************************************************)
(* State.                                                                  *)
(***************************************************************************)
VARIABLES
    env,              \* API_ID, API_HASH, CHANNEL_USERNAME
    stream,           \* the channel's messages, in the order iter_messages yields them
    ignore_file,      \* ignore_list.txt
    dir,              \* the directories that exist: "base" (DOWNLOAD_DIR), "channel"
    files,            \* the download directory's files: name -> size
    behaviour,        \* per message, whether download_media delivers it (once known)
    run,              \* which run of the program this is
    pc,               \* where main() / download_music_files is
    idx,              \* number of messages the iterator has yielded
    filename,         \* the local `filename` (file_path = download_path / filename)
    ignore_list,      \* the dict load_ignore_list returned
    downloaded_count,
    skipped_count,
    ignored_count,
    error_count,
    leaving,          \* how control leaves main() once the finally block is done
    exit_code,        \* the process's exit status (-1 while it runs)
    \* history of the current run, read by the properties only
    net,              \* calls made on the client
    dl_calls,         \* per message, number of download_media calls
    last,             \* what the latest iteration computed
    files0,           \* the directory's files when the run started
    succeeded,        \* names counted as downloaded
    summary,          \* the summary was printed
    interrupted,      \* a user interruption arrived
    outcome,          \* what download_media did in the latest iteration
    failure,          \* the call and the exception that ended the scan
    prev              \* the previous run's counters

inputs   == <<env, stream, ignore_file, behaviour, run>>
disk     == <<dir, files>>
counters == <<downloaded_count, skipped_count, ignored_count, error_count>>
control  == <<pc, idx, filename, ignore_list, leaving, exit_code>>
history  == <<net, dl_calls, last, files0, succeeded, summary, interrupted,
              outcome, failure, prev>>
vars     == <<inputs, disk, counters, control, history>>

NoMessage == Msg(0, FALSE, FALSE, FALSE, FALSE, <<>>, <<>>, <<>>, <<>>)

NoIteration ==
    [idx |-> 0, message |-> NoMessage, is_audio |-> FALSE, resolved |-> <<>>,
     filename |-> <<>>, key |-> <<>>, file_path |-> <<>>, branch |-> "none"]

NoFailure == [call |-> "none", exc |-> "none"]

NoPrev == [completed |-> FALSE, downloaded |-> 0, skipped |-> 0, ignored |-> 0, errors |-> 0]

\* a fresh process: module level state and the history of the run
Fresh ==
    /\ pc = "main"
    /\ idx = 0
    /\ filename = <<>>
    /\ ignore_list = <<>>
    /\ downloaded_count = 0
    /\ skipped_count = 0
    /\ ignored_count = 0
    /\ error_count = 0
    /\ leaving = "return"
    /\ exit_code = -1
    /\ net = {}
    /\ last = NoIteration
    /\ succeeded = {}
    /\ summary = FALSE
    /\ interrupted = FALSE
    /\ outcome = NoOutcome
    /\ failure = NoFailure

Init ==
    /\ env \in Envs
    /\ stream \in Streams
    /\ ignore_file \in IgnoreFiles
    /\ \E d \in InitialDirs : dir = d.dir /\ files = d.files
    /\ behaviour = [i \in 1..Len(stream) |-> "unknown"]
    /\ dl_calls = [i \in 1..Len(stream) |-> 0]
    /\ run = 1
    /\ files0 = files
    /\ prev = NoPrev
    /\ Fresh

(***************************************************************************)
(* main(), lines 280-294: validate the configuration, create the client.   *)
(***************************************************************************)
\* mutant: CHANNEL_USERNAME is not validated
config_invalid_ids_only(e) == e.API_ID = <<>> \/ e.API_HASH = <<>>

\* lines 283 and 288: `not API_ID or not API_HASH`, `not CHANNEL_USERNAME`
config_invalid(e) ==
    e.API_ID = <<>> \/ e.API_HASH = <<>> \/ e.CHANNEL_USERNAME = <<>>

Main ==
    /\ pc = "main"
    /\ IF config_invalid(env)
       THEN /\ pc' = "exit"            \* sys.exit(1), outside the try block
            /\ exit_code' = exit_status("SystemExit")
       ELSE /\ pc' = "start"           \* client = TelegramClient(...); try: ...
            /\ exit_code' = exit_code
    /\ UNCHANGED <<inputs, disk, counters, idx, filename, ignore_list, leaving, history>>

\* control reaches the finally block of main() (line 304)
Leave(how) ==
    /\ pc' = "finally"
    /\ leaving' = how

\* an exception raised by a call on the client leaves download_music_files
Raise(call, exc) ==
    /\ Leave(main_handler(exc))
    /\ failure' = [call |-> call, exc |-> exc]

(***************************************************************************)
(* download_music_files, lines 83-89: mkdir, await client.start().         *)
(***************************************************************************)
ClientStart ==
    /\ pc = "start"
    /\ dir' = dir \cup {"base"}       \* base_download_path.mkdir(parents, exist_ok)
    /\ net' = net \cup {"start"}
    /\ \E exc \in {"none", "ConnectionError", "RPCError"} :
          IF exc = "none"
          THEN pc' = "get_entity" /\ UNCHANGED <<leaving, failure>>
          ELSE Raise("start", exc)
    /\ UNCHANGED <<inputs, files, counters, idx, filename, ignore_list, exit_code,
                   dl_calls, last, files0, succeeded, summary, interrupted, outcome,
                   prev>>

(***************************************************************************)
(* lines 91-116: resolve the channel, create its folder, zero the          *)
(* counters, load the ignore list.                                         *)
(***************************************************************************)
GetEntity ==
    /\ pc = "get_entity"
    /\ net' = net \cup {"get_entity"}
    /\ \E exc \in {"none", "ValueError", "TypeError", "ConnectionError", "RPCError"} :
          IF exc = "none"
          THEN /\ pc' = "iter"
               /\ dir' = dir \cup {"base", "channel"}   \* download_path.mkdir
               /\ downloaded_count' = 0
               /\ skipped_count' = 0
               /\ ignored_count' = 0
               /\ error_count' = 0
               /\ ignore_list' = load_ignore_list(ignore_file)
               /\ ignore_file' = touch_ignore_list(ignore_file)
               /\ UNCHANGED <<leaving, failure>>
          ELSE /\ IF Catches(entity_except, exc)
                  THEN /\ Leave("SystemExit")        \* sys.exit(1), line 101
                       /\ failure' = [call |-> "get_entity", exc |-> exc]
                  ELSE Raise("get_entity", exc)
               /\ UNCHANGED <<ignore_list, ignore_file, dir, counters>>
    /\ UNCHANGED <<env, stream, behaviour, run, files, idx, filename, exit_code,
                   dl_calls, last, files0, succeeded, summary, interrupted, outcome,
                   prev>>

(***************************************************************************)
(* lines 119-202: the iterator yields the next message (or ends, or        *)
(* fails); the message is classified, its name sanitised, looked up in the *)
(* ignore dict and on disk; the scan stops at the download_media call.     *)
(***************************************************************************)
\* mutant: the existence check is missing
decide_no_exists_check(name, dict, fs) ==
    IF ignore_key(name) \in DOMAIN dict THEN "ignored" ELSE "download"

\* the iteration's decision for a sanitised name: lines 186-198
decide(name, dict, fs) ==
    IF ignore_key(name) \in DOMAIN dict THEN "ignored"
    ELSE IF file_exists(fs, name) THEN "skipped"
    ELSE "download"

Iterate ==
    /\ pc = "iter"
    /\ idx < Len(stream)
    /\ LET message == stream[idx + 1]
           c == classify(message)
           name == sanitize_filename(c.filename)
           branch == IF ~is_downloadable(c) THEN "continue"
                     ELSE decide(name, ignore_list, files)
       IN  /\ idx' = idx + 1
           /\ filename' = IF is_downloadable(c) THEN name ELSE c.filename
           /\ ignored_count' = ignored_count + (IF branch = "ignored" THEN 1 ELSE 0)
           /\ skipped_count' = skipped_count + (IF branch = "skipped" THEN 1 ELSE 0)
           /\ pc' = IF branch = "download" THEN "download_media" ELSE "iter"
           /\ last' = [idx |-> idx + 1, message |-> message,
                       is_audio |-> is_downloadable(c),
                       resolved |-> c.filename,
                       filename |-> IF is_downloadable(c) THEN name ELSE <<>>,
                       key |-> IF is_downloadable(c) THEN ignore_key(name) ELSE <<>>,
                       file_path |-> IF branch \in {"skipped", "download"} THEN name ELSE <<>>,
                       branch |-> branch]
    /\ net' = net \cup {"iter_messages"}
    /\ outcome' = NoOutcome
    /\ UNCHANGED <<inputs, disk, downloaded_count, error_count, ignore_list, leaving,
                   exit_code, dl_calls, files0, succeeded, summary, interrupted,
                   failure, prev>>

\* the iterator is exhausted: the summary (lines 220-228), then return
EndOfStream ==
    /\ pc = "iter"
    /\ idx = Len(stream)
    /\ net' = net \cup {"iter_messages"}
    /\ summary' = TRUE
    /\ Leave("return")
    /\ outcome' = NoOutcome
    /\ UNCHANGED <<inputs, disk, counters, idx, filename, ignore_list, exit_code,
                   dl_calls, last, files0, succeeded, interrupted, failure, prev>>

\* advancing the iterator raises
IterateFails ==
    /\ pc = "iter"
    /\ net' = net \cup {"iter_messages"}
    /\ \E exc \in {"ConnectionError", "RPCError"} : Raise("iter_messages", exc)
    /\ UNCHANGED <<inputs, disk, counters, idx, filename, ignore_list, exit_code,
                   dl_calls, last, files0, succeeded, summary, interrupted, outcome,
                   prev>>

(***************************************************************************)
(* line 202: await client.download_media(message, file=str(file_path)).    *)
(* Whether it delivers a message's attachment is chosen the first time it  *)
(* is asked for and is the same in every later run (the channel and the    *)
(* transport are unchanged); how a failing download fails may differ.      *)
(***************************************************************************)
DownloadMedia ==
    /\ pc = "download_media"
    /\ \E o \in DownloadOutcomes :
          /\ behaviour[idx] \in {"unknown", IF delivers(o) THEN "yes" ELSE "no"}
          /\ behaviour' = [behaviour EXCEPT ![idx] = IF delivers(o) THEN "yes" ELSE "no"]
          /\ files' = IF o.wrote THEN write_file(files, filename, o.size) ELSE files
          /\ outcome' = o
          /\ IF o.raises = "none"
             THEN pc' = "verify" /\ UNCHANGED <<leaving, failure>>
             ELSE IF Catches(download_except, o.raises)
                  THEN pc' = "except" /\ UNCHANGED <<leaving, failure>>
             ELSE Raise("download_media", o.raises)
    /\ dl_calls' = [dl_calls EXCEPT ![idx] = @ + 1]
    /\ net' = net \cup {"download_media"}
    /\ UNCHANGED <<env, stream, ignore_file, run, dir, counters, idx, filename,
                   ignore_list, exit_code, last, files0, succeeded, summary,
                   interrupted, prev>>

\* lines 204-212: the check of the downloaded file
Verify ==
    /\ pc = "verify"
    /\ IF download_verified(files, filename)
       THEN /\ downloaded_count' = downloaded_count + 1
            /\ succeeded' = succeeded \cup {filename}
            /\ UNCHANGED <<error_count, files>>
       ELSE /\ files' = IF file_exists(files, filename) THEN unlink(files, filename) ELSE files
            /\ error_count' = error_count + 1
            /\ UNCHANGED <<downloaded_count, succeeded>>
    /\ pc' = "iter"
    /\ UNCHANGED <<inputs, dir, skipped_count, ignored_count, idx, filename, ignore_list,
                   leaving, exit_code, net, dl_calls, last, files0, summary,
                   interrupted, outcome, failure, prev>>

\* lines 213-218: the except clause of the download
Except ==
    /\ pc = "except"
    /\ error_count' = error_count + 1
    /\ files' = IF file_exists(files, filename) THEN unlink(files, filename) ELSE files
    /\ pc' = "iter"
    /\ UNCHANGED <<inputs, dir, downloaded_count, skipped_count, ignored_count, idx,
                   filename, ignore_list, leaving, exit_code, history>>

(***************************************************************************)
(* A user interruption (SIGINT) while the scan is suspended in one of its  *)
(* awaits.  Under asyncio.run it reaches main() in one of two ways: as a   *)
(* KeyboardInterrupt raised inside the coroutine, which line 298 catches,  *)
(* or as the cancellation of the main task, which no except clause of      *)
(* main() names; asyncio.run then raises KeyboardInterrupt itself after    *)
(* the task has finished.  The finally block runs in both.  An interrupted *)
(* download may leave a partial file.                                      *)
(***************************************************************************)
\* the call on the client the scan is suspended in
awaited(at) ==
    CASE at = "start"          -> "start"
      [] at = "get_entity"     -> "get_entity"
      [] at = "iter"           -> "iter_messages"
      [] at = "download_media" -> "download_media"

Interrupt ==
    /\ pc \in {"start", "get_entity", "iter", "download_media"}
    /\ interrupted' = TRUE
    /\ net' = net \cup {awaited(pc)}
    /\ dir' = IF pc = "start" THEN dir \cup {"base"} ELSE dir
    /\ dl_calls' = IF pc = "download_media"
                   THEN [dl_calls EXCEPT ![idx] = @ + 1] ELSE dl_calls
    /\ \E how \in {"return", "KeyboardInterrupt"} : Leave(how)
    /\ \E partial \in BOOLEAN :
          files' = IF pc = "download_media" /\ partial
                   THEN write_file(files, filename, 1)
                   ELSE files
    /\ UNCHANGED <<inputs, counters, idx, filename, ignore_list, exit_code,
                   last, files0, succeeded, summary, outcome, failure, prev>>

(***************************************************************************)
(* lines 304-305: finally: await client.disconnect(); then the process     *)
(* ends.                                                                   *)
(***************************************************************************)
Disconnect ==
    /\ pc = "finally"
    /\ net' = net \cup {"disconnect"}
    /\ pc' = "exit"
    /\ exit_code' = exit_status(leaving)
    /\ UNCHANGED <<inputs, disk, counters, idx, filename, ignore_list, leaving,
                   dl_calls, last, files0, succeeded, summary, interrupted, outcome,
                   failure, prev>>

(***************************************************************************)
(* After a run that scanned the whole channel, the program is started      *)
(* again, on the same channel and configuration, in the directory as that  *)
(* run left it.                                                            *)
(***************************************************************************)
Rerun ==
    /\ pc = "exit"
    /\ summary
    /\ run < MaxRuns
    /\ run' = run + 1
    /\ prev' = [completed |-> summary, downloaded |-> downloaded_count,
                skipped |-> skipped_count, ignored |-> ignored_count,
                errors |-> error_count]
    /\ files0' = files
    /\ dl_calls' = [i \in 1..Len(stream) |-> 0]
    /\ pc' = "main"
    /\ idx' = 0
    /\ filename' = <<>>
    /\ ignore_list' = <<>>
    /\ downloaded_count' = 0
    /\ skipped_count' = 0
    /\ ignored_count' = 0
    /\ error_count' = 0
    /\ leaving' = "return"
    /\ exit_code' = -1
    /\ net' = {}
    /\ last' = NoIteration
    /\ succeeded' = {}
    /\ summary' = FALSE
    /\ interrupted' = FALSE
    /\ outcome' = NoOutcome
    /\ failure' = NoFailure
    /\ UNCHANGED <<env, stream, ignore_file, behaviour, disk>>

Next ==
    \/ Main
    \/ ClientStart
    \/ GetEntity
    \/ Iterate
    \/ EndOfStream
    \/ IterateFails
    \/ DownloadMedia
    \/ Verify
    \/ Except
    \/ Interrupt
    \/ Disconnect
    \/ Rerun

Spec == Init /\ [][Next]_vars


(***************************************************************************)
(* Properties.                                                             *)
(***************************************************************************)
\* the run scanned the whole channel and the process has ended
Completed == pc = "exit" /\ summary

Total == downloaded_count + skipped_count + ignored_count + error_count

\* the exceptions that are transport or IO failures
TransportOrIOFailure == {"OSError", "IOError", "ConnectionError", "TimeoutError"}

\* a download that returned leaving a zero-length file, or raised a
\* transport/IO failure
FailedDownload(o) ==
    \/ o.raises = "none" /\ o.wrote /\ o.size = 0
    \/ o.raises \in TransportOrIOFailure

\* the entries of ignore_list.txt: its trimmed lines, blank lines and
\* comments left out
IgnoreEntries(file) ==
    {Strip(file.lines[i], Whitespace) : i \in
        {j \in 1..Len(file.lines) :
            LET l == Strip(file.lines[j], Whitespace)
            IN  l # <<>> /\ l[1] # "#"}}

\* a filesystem entry exists at download_path / name
EntryExists(fs, name) == name = <<>> \/ name \in DOMAIN fs

----------------------------------------------------------------------------
\* C1, as stated: after two complete runs in a row on the same channel, the
\* second run downloaded nothing and skipped as many messages as the first
\* run downloaded.
C1_SkippedEqualsDownloaded ==
    (run > 1 /\ Completed /\ prev.completed)
        => /\ downloaded_count = 0
           /\ skipped_count = prev.downloaded

\* C1, amended: the second run downloads nothing and skips what the first run
\* downloaded or skipped, plus the messages whose download failed in the
\* first run and does not fail again (their file was created by another
\* message of the same name).
C1_SecondRunSkips ==
    (run > 1 /\ Completed /\ prev.completed)
        => /\ downloaded_count = 0
           /\ ignored_count = prev.ignored
           /\ error_count <= prev.errors
           /\ skipped_count = prev.downloaded + prev.skipped + (prev.errors - error_count)

C1_Witness ==
    /\ run > 1
    /\ Completed
    /\ prev.downloaded > 0
    /\ prev.skipped > 0
    /\ prev.errors > error_count
    /\ skipped_count = Len(stream)

----------------------------------------------------------------------------
----------------------------------------------------------------------------
\* C3: when a download returns leaving a zero-length file or raises a
\* transport/IO failure, the iteration ends with errors one higher,
\* downloaded unchanged and no file at the target path.
C3_FailedDownloadCleansUp ==
    /\ [][(pc = "download_media" /\ FailedDownload(outcome'))
            => pc' \in {"verify", "except"}]_vars
    /\ [][(pc \in {"verify", "except"} /\ FailedDownload(outcome))
            => /\ pc' = "iter"
               /\ error_count' = error_count + 1
               /\ downloaded_count' = downloaded_count
               /\ filename \notin DOMAIN files']_vars
    /\ []((pc = "iter" /\ FailedDownload(outcome)) => filename \notin DOMAIN files)

C3_Witness ==
    /\ pc = "iter"
    /\ outcome.raises = "none" /\ outcome.wrote /\ outcome.size = 0
    /\ error_count = 1
    /\ downloaded_count = 0
    /\ dl_calls[idx] = 1
    /\ filename \notin DOMAIN files

----------------------------------------------------------------------------
\* C4: after a completed run the directory holds what it held before plus
\* the files counted as downloaded (each non-empty); a file that was there
\* before the run is never removed or rewritten; the only removal is of the
\* file of the download in progress, which was not there before the run.
C4_DirectoryOnlyGrows ==
    /\ [](Completed => DOMAIN files = DOMAIN files0 \cup succeeded)
    /\ [](\A n \in succeeded : n \in DOMAIN files /\ files[n] > 0)
    /\ [](\A n \in DOMAIN files0 : n \in DOMAIN files /\ files[n] = files0[n])
    /\ [][\A n \in DOMAIN files \ DOMAIN files' :
            /\ pc \in {"verify", "except"}
            /\ n = filename
            /\ dl_calls[idx] = 1
            /\ n \notin DOMAIN files0]_vars

C4_Witness ==
    /\ Completed
    /\ succeeded # {}
    /\ DOMAIN files0 # {}
    /\ error_count > 0
    /\ skipped_count > 0

----------------------------------------------------------------------------
\* C5: an iteration over an audio message whose sanitised name equals, case
\* ignored, an entry of the ignore file adds one to ignored and changes
\* nothing else: no download, no change to the directory or to the other
\* counters, also when a file of that name exists.
C5_IgnoredIsOnlyCounted ==
    [][(/\ pc = "iter"
        /\ idx' = idx + 1
        /\ last'.is_audio
        /\ \E e \in IgnoreEntries(ignore_file) : Lower(e) = Lower(last'.filename))
          => /\ ignored_count' = ignored_count + 1
             /\ downloaded_count' = downloaded_count
             /\ skipped_count' = skipped_count
             /\ error_count' = error_count
             /\ files' = files
             /\ dir' = dir
             /\ dl_calls' = dl_calls
             /\ "download_media" \in net' <=> "download_media" \in net
             /\ pc' = "iter"]_vars

C5_Witness ==
    /\ pc = "iter"
    /\ last.branch = "ignored"
    /\ ignored_count = 1
    /\ last.filename \in DOMAIN files
    /\ last.filename \notin IgnoreEntries(ignore_file)
    /\ \A i \in DOMAIN dl_calls : dl_calls[i] = 0

----------------------------------------------------------------------------
\* C6: with API_ID, API_HASH or CHANNEL_USERNAME missing the process makes no
\* call on the client and exits with 1; when the channel cannot be resolved
\* no message is iterated, nothing is downloaded and the process exits with
\* 1; a run that completes exits with 0.
ConfigMissing ==
    env.API_ID = <<>> \/ env.API_HASH = <<>> \/ env.CHANNEL_USERNAME = <<>>

ChannelNotResolved ==
    failure.call = "get_entity" /\ failure.exc \in {"ValueError", "TypeError", "RPCError"}

C6_FatalErrorsExitOne ==
    /\ ConfigMissing =>
          /\ net = {}
          /\ pc \in {"main", "exit"}
          /\ pc = "exit" => exit_code = 1
    /\ ChannelNotResolved =>
          /\ idx = 0
          /\ net \cap {"iter_messages", "download_media"} = {}
          /\ \A i \in DOMAIN dl_calls : dl_calls[i] = 0
          /\ pc \in {"finally", "exit"}
          /\ pc = "exit" => exit_code = 1
    /\ Completed => exit_code = 0

C6_Witness ==
    /\ pc = "exit"
    /\ failure = [call |-> "get_entity", exc |-> "ValueError"]
    /\ exit_code = 1
    /\ Len(stream) > 0

----------------------------------------------------------------------------
\* C7: after a user interruption the client is disconnected and the process
\* ends with exit code 0; whenever the process ends after the client was
\* created, disconnect was called.
C7_InterruptExitsZero ==
    /\ (pc = "exit" /\ interrupted) => (exit_code = 0 /\ "disconnect" \in net)
    /\ (pc = "exit" /\ ~ConfigMissing) => "disconnect" \in net

----------------------------------------------------------------------------
\* C8: the scan classifies every message as the first-match table does.
TableExtensions ==
    {ext_mp3, ext_m4a, ext_flac, ext_wav, ext_ogg, ext_opus, ext_aac, ext_wma}

HasAudioExtension(name) ==
    \E e \in TableExtensions :
        /\ Len(name) > Len(e)
        /\ Lower(SubSeq(name, Len(name) - Len(e) + 1, Len(name))) = e

DeclaredName(message) ==
    IF \E i \in 1..Len(message.attributes) : message.attributes[i] # <<>>
    THEN message.attributes[CHOOSE i \in 1..Len(message.attributes) :
            /\ message.attributes[i] # <<>>
            /\ \A j \in 1..(i - 1) : message.attributes[j] = <<>>]
    ELSE <<>>

TableMimeExtension(mime_type) ==
    IF \E p \in mime_to_ext : p[1] = mime_type
    THEN (CHOOSE p \in mime_to_ext : p[1] = mime_type)[2]
    ELSE ext_mp3

NotAudio == [is_audio |-> FALSE, filename |-> <<>>]

Audio(name) == [is_audio |-> TRUE, filename |-> name]

Table(message) ==
    LET declared == DeclaredName(message)
        id == IntToStr(message.id)
    IN  CASE ~message.media -> NotAudio
          [] message.media /\ message.audio ->
                Audio(IF declared # <<>> THEN declared
                      ELSE IF message.performer # <<>> /\ message.title # <<>>
                           THEN message.performer \o <<" ","-"," ">> \o message.title \o ext_mp3
                      ELSE IF message.title # <<>> THEN message.title \o ext_mp3
                      ELSE <<"a","u","d","i","o","_">> \o id \o ext_mp3)
          [] message.media /\ ~message.audio /\ message.voice ->
                Audio(IF declared # <<>> THEN declared
                      ELSE <<"v","o","i","c","e","_">> \o id \o ext_ogg)
          [] message.media /\ ~message.audio /\ ~message.voice /\ message.document ->
                IF HasAudioExtension(declared) \/ StartsWith(message.mime_type, audio_slash)
                THEN Audio(IF declared # <<>> THEN declared
                           ELSE <<"a","u","d","i","o","_">> \o id
                                  \o TableMimeExtension(message.mime_type))
                ELSE NotAudio
          [] OTHER -> NotAudio

C8_ClassifiedAsTable ==
    last.idx > 0 =>
        [is_audio |-> last.is_audio, filename |-> last.resolved] = Table(last.message)

C8_Witness ==
    /\ last.idx > 0
    /\ last.message.document /\ ~last.message.audio /\ ~last.message.voice
    /\ last.message.attributes = <<>>
    /\ last.message.mime_type = s_flac
    /\ last.is_audio
    /\ last.resolved = <<"a","u","d","i","o","_">> \o IntToStr(last.message.id) \o ext_flac

----------------------------------------------------------------------------
\* C9: each audio message whose iteration finishes adds exactly one to
\* exactly one counter: ignored if its name is in the ignore dict, else
\* skipped if something exists at the target path, else downloaded if the
\* download left a non-empty file and errors if not.  download_media is
\* called at most once per message and only for a path where nothing
\* exists; counters never decrease; at the end of the stream the four
\* counters add up to the number of audio messages; the three-message
\* scenario gives 1, 1, 1, 0.
AudioMessages(n) == {i \in 1..n : is_downloadable(classify(stream[i]))}

Scenario ==
    /\ Len(stream) = 3
    /\ \A i \in 1..3 : is_downloadable(classify(stream[i]))
    /\ \E i, j, k \in 1..3 :
          LET name(x) == sanitize_filename(classify(stream[x]).filename)
          IN  /\ {i, j, k} = {1, 2, 3}
              /\ Lower(name(i)) \in DOMAIN ignore_list
              /\ Lower(name(j)) \notin DOMAIN ignore_list /\ name(j) \in DOMAIN files0
              /\ Lower(name(k)) \notin DOMAIN ignore_list /\ name(k) \notin DOMAIN files0
              /\ behaviour[k] = "yes"

----------------------------------------------------------------------------
\* C10: the name an audio message is looked up, checked and downloaded under
\* is the resolved name sanitised once: each of < > : " / \ | ? * replaced
\* by _, then leading and trailing spaces and dots removed.
Sanitised(name) ==
    LET r == [i \in 1..Len(name) |->
                IF name[i] \in {"<", ">", ":", "\"", "/", "\\", "|", "?", "*"}
                THEN "_" ELSE name[i]]
        inner == {i \in 1..Len(r) : r[i] \notin {" ", "."}}
    IN  IF inner = {} THEN <<>>
        ELSE SubSeq(r, CHOOSE i \in inner : \A j \in inner : i <= j,
                       CHOOSE i \in inner : \A j \in inner : i >= j)

C10_SanitisedOnceBeforeUse ==
    (last.idx > 0 /\ last.is_audio) =>
        /\ last.filename = Sanitised(last.resolved)
        /\ \A i \in 1..Len(last.filename) :
              last.filename[i] \notin {"<", ">", ":", "\"", "/", "\\", "|", "?", "*"}
        /\ last.filename # <<>> =>
              /\ last.filename[1] \notin {" ", "."}
              /\ last.filename[Len(last.filename)] \notin {" ", "."}
        /\ last.key = Lower(last.filename)
        /\ last.branch \in {"skipped", "download"} => last.file_path = last.filename
        /\ pc \in {"download_media", "verify", "except"} =>
              /\ last.branch = "download"
              /\ filename = last.filename
        /\ last.resolved = s_raw => last.filename = <<"a","_","b","_","c","_","d">>
        /\ last.resolved = s_padded => last.filename = <<"n","a","m","e">>

C10_Witness ==
    /\ pc = "verify"
    /\ last.resolved = s_padded
    /\ filename = <<"n","a","m","e">>
    /\ filename \in DOMAIN files

=============================================================================
